---- MODULE Spec2Model ----
(***************************************************************************)
(* Model of generate_orders.py: one invocation of main()/run_generator(),  *)
(* which joins the ASTOB transaction table to the TABEL CHEIE reference    *)
(* table, groups the joined rows by client, fills one workbook per client  *)
(* and zips the output directory.                                          *)
(*                                                                         *)
(* Representation.                                                         *)
(*  - Amounts are integers counting thousandths of a currency unit, so     *)
(*    4 is 0.004 and 1000 is 1.00.                                         *)
(*  - A timestamp is day * 10 + second-of-day; datetime_min is the         *)
(*    sentinel datetime.min.  NaD is a raw date cell that does not parse.  *)
(*  - A client name is a sequence of one-character strings.                *)
(*  - A file name is the sequence << "Ordin - " >> \o stem \o <<".xlsx">>. *)
(*  - The product label of a transaction row is its position in the input  *)
(*    table (labels are pairwise distinct), which identifies the row in    *)
(*    every later structure.                                               *)
(*                                                                         *)
(* Two further components are modelled after the generator, each with its  *)
(* own variables and specification: find_col, which resolves a column of a *)
(* table from candidate names, and the request handlers of app.py.         *)
(***************************************************************************)
EXTENDS Integers, Sequences, FiniteSets, TLC

VARIABLES
    ast,            \* the transaction table (ASTOB), in input order
    key,            \* the reference table (TABEL CHEIE), in input order
    template,       \* geometry of the template workbook
    out_dir,        \* files of the output directory: file name -> workbook
    pc,             \* position in main()/run_generator()
    key_map,        \* TID -> reference data (last row with that TID)
    rows,           \* joined rows
    colectari_text, \* the collection period, << >> for the empty string
    todo,           \* rows the groupby iterator has not consumed yet
    groups,         \* the groupby loop's iterations so far, in order
    ok_any,         \* run_generator's ok_any
    zip,            \* entries of the archive: file name -> workbook
    zip_written,    \* whether the archive file exists
    ret,            \* run_generator's return value: "none", "true", "false"
    exit_code,      \* process exit status: -1 while running, 0, 1
    columns,        \* find_col: the headers of the table (df.columns)
    candidates,     \* find_col: the candidate names, in priority order
    norms,          \* find_col: the dict norms, as << key, value >> in key order
    fc_pc,          \* find_col: position in the function
    fc_i,           \* find_col: index of the candidate the current loop is at
    fc_result,      \* find_col: the header returned, << >> while there is none
    endpoint,       \* app: the route of the request, "generate" or "generate_b64"
    payload,        \* app: what the request carries
    static_files,   \* app: which packaged files exist under ./static
    h_pc,           \* app: position of the request in its handler
    tmpdir_exists,  \* app: whether the directory made by mkdtemp exists
    fs,             \* app: the files written by the request, as [dir, name]
    work_dir,       \* app: astob_path.parent, the tmpdir of run_generator
    template_path,  \* app: "none", "uploaded" or "static"
    clients_zip_path, \* app: "none", "uploaded" or "packaged"
    returncode,     \* app: exit status of the generator process, -1 before it ran
    resp,           \* app: the response the handler returns
    body            \* app: what the server made of the response body

gen_vars == << ast, key, template, out_dir, pc, key_map, rows, colectari_text,
               todo, groups, ok_any, zip, zip_written, ret, exit_code >>

find_col_vars == << columns, candidates, norms, fc_pc, fc_i, fc_result >>

http_vars == << endpoint, payload, static_files, h_pc, tmpdir_exists, fs, work_dir,
               template_path, clients_zip_path, returncode, resp, body >>

vars == << gen_vars, find_col_vars, http_vars >>

(* The state of a component that is not running. *)
FindColIdle ==
    /\ columns = << >>
    /\ candidates = << >>
    /\ norms = << >>
    /\ fc_pc = "idle"
    /\ fc_i = 0
    /\ fc_result = << >>

HttpIdle ==
    /\ endpoint = "none"
    /\ payload = [has_keys |-> FALSE, astob_name |-> "plain", template |-> FALSE,
                  clients_zip |-> FALSE]
    /\ static_files = [template |-> FALSE, clients_zip |-> FALSE]
    /\ h_pc = "idle"
    /\ tmpdir_exists = FALSE
    /\ fs = {}
    /\ work_dir = "none"
    /\ template_path = "none"
    /\ clients_zip_path = "none"
    /\ returncode = 0 - 1
    /\ resp = "none"
    /\ body = "none"

other_than_gen == << find_col_vars, http_vars >>

other_than_find_col == << gen_vars, http_vars >>

other_than_http == << gen_vars, find_col_vars >>

----------------------------------------------------------------------------
(* Bounds of the model *)

MaxTx == 2

MaxKey == 2

MaxTotalOff == 3

(* Program constants *)

datetime_min == 0

NaD == 0 - 1

HeaderRow == 17

start_col == 1

----------------------------------------------------------------------------
(* Strings *)

Ord(ch) ==
    CASE ch = " " -> 32
      [] ch = "-" -> 45
      [] ch = "." -> 46
      [] ch = "/" -> 47
      [] ch = "A" -> 65
      [] ch = "B" -> 66
      [] ch = "C" -> 67
      [] ch = "Z" -> 90
      [] ch = "_" -> 95

isalnum(ch) == ch \in {"A", "B", "C", "Z"}

RECURSIVE StrLess(_, _)
StrLess(a, b) ==
    IF b = << >> THEN FALSE
    ELSE IF a = << >> THEN TRUE
    ELSE IF Ord(Head(a)) # Ord(Head(b)) THEN Ord(Head(a)) < Ord(Head(b))
    ELSE StrLess(Tail(a), Tail(b))

RECURSIVE lstrip(_)
lstrip(s) == IF s # << >> /\ Head(s) = " " THEN lstrip(Tail(s)) ELSE s

RECURSIVE rstrip(_)
rstrip(s) ==
    IF s # << >> /\ s[Len(s)] = " " THEN rstrip(SubSeq(s, 1, Len(s) - 1)) ELSE s

strip(s) == rstrip(lstrip(s))

safe_keeps(ch) == isalnum(ch) \/ ch \in {" ", "-", "_"}

safe_client(name) == strip(SelectSeq(name, safe_keeps))

out_xlsx(name) == << "Ordin - " >> \o safe_client(name) \o << ".xlsx" >>

----------------------------------------------------------------------------
(* Conversions *)

parse_amount(v) == v

parse_datetime(d) == IF d = NaD THEN datetime_min ELSE d

IsValidDate(dt) == dt # datetime_min

strftime_dmy(dt) == dt \div 10

Abs(x) == IF x < 0 THEN 0 - x ELSE x

(* abs(total) < 1e-9: a total is a whole number of thousandths, and 1e-9 lies
   strictly between 0 and one thousandth. *)
TotalIsZero(total) == Abs(total) < 1

RECURSIVE SumVal(_)
SumVal(s) == IF s = << >> THEN 0 ELSE Head(s).valoare + SumVal(Tail(s))

SeqMin(S) == CHOOSE x \in S : \A y \in S : x <= y

SeqMax(S) == CHOOSE x \in S : \A y \in S : y <= x

----------------------------------------------------------------------------
(* Stable sorts (list.sort with a key) *)

ClientDataLess(a, b) ==
    \/ StrLess(a.client, b.client)
    \/ a.client = b.client /\ a.data < b.data

DataLess(a, b) == a.data < b.data

RECURSIVE InsertStable(_, _, _)
InsertStable(x, s, by_client) ==
    IF s = << >> THEN << x >>
    ELSE LET l == s[Len(s)]
             x_before_l == IF by_client THEN ClientDataLess(x, l) ELSE DataLess(x, l)
         IN IF x_before_l
            THEN Append(InsertStable(x, SubSeq(s, 1, Len(s) - 1), by_client), l)
            ELSE Append(s, x)

RECURSIVE SortStable(_, _)
SortStable(s, by_client) ==
    IF s = << >> THEN << >>
    ELSE InsertStable(s[Len(s)], SortStable(SubSeq(s, 1, Len(s) - 1), by_client), by_client)

sort_client_data(s) == SortStable(s, TRUE)

(* A plausible slip: the per-client sort run newest first (reverse=True). *)
RECURSIVE sort_data_desc(_)
sort_data_desc(s) ==
    IF s = << >> THEN << >>
    ELSE LET later == {i \in DOMAIN s : \A j \in DOMAIN s : s[j].data <= s[i].data}
             f == CHOOSE i \in later : \A j \in later : i <= j
         IN << s[f] >> \o sort_data_desc(SubSeq(s, 1, f - 1) \o SubSeq(s, f + 1, Len(s)))

sort_data(s) == SortStable(s, FALSE)

----------------------------------------------------------------------------
(* Worksheet cells *)

Cols == 1 .. 6

LastRow == HeaderRow + (IF MaxTx > MaxTotalOff + 1 THEN MaxTx ELSE MaxTotalOff + 1)

SheetRows == HeaderRow .. LastRow

EmptyCell == [t |-> "empty", s |-> "", q |-> << >>, n |-> 0]

TextCell(s) == [t |-> "text", s |-> s, q |-> << >>, n |-> 0]

StrCell(q) == [t |-> "str", s |-> "", q |-> q, n |-> 0]

DigitsCell(n) == [t |-> "digits", s |-> "", q |-> << >>, n |-> n]

NumCell(n) == [t |-> "num", s |-> "", q |-> << >>, n |-> n]

TsCell(dt) == [t |-> "ts", s |-> "", q |-> << >>, n |-> dt]

None == << 0, 0 >>

TemplateGeometry(off, tcol) ==
    [start_row |-> HeaderRow, trow |-> HeaderRow + off, tcol |-> tcol]

(* The function as an explicit table of its values. *)
Stored(f) == f @@ << >>

load_workbook(tpl) ==
    Stored([p \in SheetRows \X Cols |->
        IF p[1] = tpl.start_row /\ p[2] = start_col THEN TextCell("{DENUMIRE SITE}")
        ELSE IF p[1] = tpl.start_row /\ p[2] = start_col + 1 THEN TextCell("{TID}")
        ELSE IF p[1] = tpl.start_row /\ p[2] = start_col + 2 THEN TextCell("{DENUMIRE PRODUS}")
        ELSE IF p[1] = tpl.start_row /\ p[2] = start_col + 3 THEN TextCell("{VALOARE CU TVA}")
        ELSE IF p[1] = tpl.start_row /\ p[2] = start_col + 4 THEN TextCell("{DATA TRANZACTIEI}")
        ELSE IF p[1] = tpl.trow /\ p[2] = tpl.tcol THEN TextCell("{TOTAL}")
        ELSE IF p[1] = tpl.trow + 1 /\ p[2] = start_col THEN TextCell("Semnatura")
        ELSE EmptyCell])

replace_placeholder(ws, placeholder, value) ==
    Stored([p \in DOMAIN ws |->
        IF ws[p].t = "text" /\ ws[p].s = placeholder THEN TextCell(value) ELSE ws[p]])

find_cell(ws, needle) ==
    LET hits == {p \in DOMAIN ws : ws[p].t = "text" /\ ws[p].s = needle}
    IN IF hits = {} THEN None
       ELSE CHOOSE p \in hits :
                \A o \in hits : p[1] < o[1] \/ (p[1] = o[1] /\ p[2] <= o[2])

write_row(ws, row, scol, tx) ==
    [ws EXCEPT
        ![<< row, scol >>] = StrCell(tx.site),
        ![<< row, scol + 1 >>] = DigitsCell(tx.tid),
        ![<< row, scol + 2 >>] = DigitsCell(tx.produs),
        ![<< row, scol + 3 >>] = NumCell(tx.valoare),
        ![<< row, scol + 4 >>] =
            IF tx.data # datetime_min THEN TsCell(tx.data) ELSE StrCell(<< >>)]

RECURSIVE write_rows(_, _, _, _)
write_rows(ws, row, scol, tx_rows) ==
    IF tx_rows = << >> THEN ws
    ELSE write_rows(write_row(ws, row, scol, Head(tx_rows)), row + 1, scol, Tail(tx_rows))

write_total(ws, scol, total) ==
    LET total_label_pos == find_cell(ws, "Total")
    IN IF total_label_pos # None
       THEN [ws EXCEPT ![<< total_label_pos[1], scol + 3 >>] = NumCell(total)]
       ELSE ws

fill_workbook_for_client(tpl, client_name, tx_rows, colectari) ==
    LET ws0 == load_workbook(tpl)
        ws1 == replace_placeholder(
                 replace_placeholder(
                   replace_placeholder(
                     replace_placeholder(
                       replace_placeholder(
                         replace_placeholder(ws0, "{DENUMIRE SITE}", "Denumire Site"),
                         "{TID}", "TID"),
                       "{DENUMIRE PRODUS}", "Denumire Produs"),
                     "{VALOARE CU TVA}", "Valoare cu TVA"),
                   "{DATA TRANZACTIEI}", "Data Tranzactiei"),
                 "{TOTAL}", "Total")
        start_pos == find_cell(ws1, "Denumire Site")
        start_row == IF start_pos = None THEN HeaderRow ELSE start_pos[1]
        scol == IF start_pos = None THEN start_col ELSE start_pos[2]
        ws2 == write_rows(ws1, start_row + 1, scol, tx_rows)
        total == SumVal(tx_rows)
    IN [nume |-> client_name,
        colectari |-> colectari,
        cells |-> write_total(ws2, scol, total)]

----------------------------------------------------------------------------
(* Input tables *)

RECURSIVE SeqsUpTo(_, _)
SeqsUpTo(S, n) ==
    IF n = 0 THEN {<< >>}
    ELSE LET shorter == SeqsUpTo(S, n - 1)
         IN shorter \cup {Append(q, x) : q \in {r \in shorter : Len(r) = n - 1}, x \in S}

TxTables(TxRows) ==
    {[i \in DOMAIN t |-> [tid |-> t[i][1], valoare |-> t[i][2], data |-> t[i][3], produs |-> i]] :
        t \in SeqsUpTo(TxRows, MaxTx)}

KeyTables(KeyRows) ==
    {[i \in DOMAIN k |-> [tid |-> k[i][1], nume |-> k[i][2]]] :
        k \in SeqsUpTo(KeyRows, MaxKey)}

NoFiles == [f \in {} |-> 0]

StaleFile == << "Ordin - ", "Z", ".xlsx" >>

StaleDir(tpl) ==
    [f \in {StaleFile} |->
        [nume |-> << "Z" >>, colectari |-> << >>, cells |-> load_workbook(tpl)]]

----------------------------------------------------------------------------
(* run_generator *)

InitWith(txs, keys, tpls, stale) ==
    /\ ast \in txs
    /\ key \in keys
    /\ template \in tpls
    /\ out_dir \in {NoFiles} \cup (IF stale THEN {StaleDir(template)} ELSE {})
    /\ pc = "key_map"
    /\ key_map = NoFiles
    /\ rows = << >>
    /\ colectari_text = << >>
    /\ todo = << >>
    /\ groups = << >>
    /\ ok_any = FALSE
    /\ zip = NoFiles
    /\ zip_written = FALSE
    /\ ret = "none"
    /\ exit_code = 0 - 1
    /\ FindColIdle
    /\ HttpIdle

(* A plausible slip: the first row listing a terminal id wins, not the last. *)
FirstIndexOf(tid) ==
    CHOOSE i \in DOMAIN key :
        key[i].tid = tid /\ \A j \in DOMAIN key : key[j].tid = tid => i <= j

LastIndexOf(tid) ==
    CHOOSE i \in DOMAIN key :
        key[i].tid = tid /\ \A j \in DOMAIN key : key[j].tid = tid => j <= i

build_key_map ==
    [tid \in {key[i].tid : i \in DOMAIN key} |-> [nume |-> key[LastIndexOf(tid)].nume, site |-> << >>]]

BuildKeyMap ==
    /\ pc = "key_map"
    /\ key_map' = build_key_map
    /\ pc' = "join"
    /\ UNCHANGED << ast, key, template, out_dir, rows, colectari_text, todo, groups,
                    ok_any, zip, zip_written, ret, exit_code >>
    /\ UNCHANGED other_than_gen

is_matched(tr) == tr.tid \in DOMAIN key_map

joined_row(tr) ==
    [client |-> key_map[tr.tid].nume,
     tid |-> tr.tid,
     site |-> key_map[tr.tid].site,
     produs |-> tr.produs,
     valoare |-> parse_amount(tr.valoare),
     data |-> parse_datetime(tr.data)]

(* A plausible slip: a left join, which keeps the rows of unlisted terminals
   under an empty client name. *)
RECURSIVE join_rows_left(_)
join_rows_left(table) ==
    IF table = << >> THEN << >>
    ELSE IF is_matched(Head(table))
         THEN << joined_row(Head(table)) >> \o join_rows_left(Tail(table))
         ELSE << [client |-> << >>,
                  tid |-> Head(table).tid,
                  site |-> << >>,
                  produs |-> Head(table).produs,
                  valoare |-> parse_amount(Head(table).valoare),
                  data |-> parse_datetime(Head(table).data)] >>
              \o join_rows_left(Tail(table))

(* A plausible slip: a row whose date does not parse is dropped by the join. *)
RECURSIVE join_rows_dated(_)
join_rows_dated(table) ==
    IF table = << >> THEN << >>
    ELSE IF is_matched(Head(table)) /\ parse_datetime(Head(table).data) # datetime_min
         THEN << joined_row(Head(table)) >> \o join_rows_dated(Tail(table))
         ELSE join_rows_dated(Tail(table))

RECURSIVE join_rows(_)
join_rows(table) ==
    IF table = << >> THEN << >>
    ELSE IF is_matched(Head(table))
         THEN << joined_row(Head(table)) >> \o join_rows(Tail(table))
         ELSE join_rows(Tail(table))

JoinRows ==
    /\ pc = "join"
    /\ rows' = join_rows(ast)
    /\ pc' = "check"
    /\ UNCHANGED << ast, key, template, out_dir, key_map, colectari_text, todo, groups,
                    ok_any, zip, zip_written, ret, exit_code >>
    /\ UNCHANGED other_than_gen

EmptyReturn ==
    /\ pc = "check"
    /\ rows = << >>
    /\ zip' = NoFiles
    /\ zip_written' = TRUE
    /\ ret' = "true"
    /\ pc' = "main"
    /\ UNCHANGED << ast, key, template, out_dir, key_map, rows, colectari_text, todo,
                    groups, ok_any, exit_code >>
    /\ UNCHANGED other_than_gen

(* A plausible slip: the sentinel of an unparsable date is not filtered out. *)
period_dates_all(rs) == {rs[i].data : i \in DOMAIN rs}

period_dates(rs) == {rs[i].data : i \in {j \in DOMAIN rs : IsValidDate(rs[j].data)}}

collection_period(rs) ==
    LET dts == period_dates(rs)
    IN IF dts # {} THEN << strftime_dmy(SeqMin(dts)), strftime_dmy(SeqMax(dts)) >>
       ELSE << >>

SortAndPeriod ==
    /\ pc = "check"
    /\ rows # << >>
    /\ rows' = sort_client_data(rows)
    /\ colectari_text' = collection_period(rows')
    /\ todo' = rows'
    /\ ok_any' = FALSE
    /\ pc' = "groups"
    /\ UNCHANGED << ast, key, template, out_dir, key_map, groups, zip, zip_written,
                    ret, exit_code >>
    /\ UNCHANGED other_than_gen

RECURSIVE run_length(_, _)
run_length(s, c) ==
    IF s # << >> /\ Head(s).client = c THEN 1 + run_length(Tail(s), c) ELSE 0

skip_group(total) == TotalIsZero(total)

to_tx_rows(grp_list, c) ==
    [i \in DOMAIN grp_list |->
        [site |-> IF grp_list[i].site # << >> THEN grp_list[i].site ELSE c,
         tid |-> grp_list[i].tid,
         produs |-> grp_list[i].produs,
         valoare |-> grp_list[i].valoare,
         data |-> grp_list[i].data]]

put_file(dir, name, doc) ==
    [f \in DOMAIN dir \cup {name} |-> IF f = name THEN doc ELSE dir[f]]

NextGroup ==
    /\ pc = "groups"
    /\ todo # << >>
    /\ LET c == Head(todo).client
           n == run_length(todo, c)
           grp_list == SubSeq(todo, 1, n)
           total == SumVal(grp_list)
           sorted == sort_data(grp_list)
           tx_rows == to_tx_rows(sorted, c)
       IN /\ todo' = SubSeq(todo, n + 1, Len(todo))
          /\ IF skip_group(total)
             THEN /\ groups' = Append(groups, [client |-> c, grp_list |-> grp_list,
                                               total |-> total, rendered |-> FALSE])
                  /\ UNCHANGED << out_dir, ok_any >>
             ELSE /\ groups' = Append(groups, [client |-> c, grp_list |-> sorted,
                                               total |-> total, rendered |-> TRUE])
                  /\ out_dir' = put_file(out_dir, out_xlsx(c),
                                  fill_workbook_for_client(template, c, tx_rows, colectari_text))
                  /\ ok_any' = TRUE
    /\ UNCHANGED << ast, key, template, pc, key_map, rows, colectari_text, zip,
                    zip_written, ret, exit_code >>
    /\ UNCHANGED other_than_gen

PackZip ==
    /\ pc = "groups"
    /\ todo = << >>
    /\ zip' = out_dir
    /\ zip_written' = TRUE
    /\ ret' = IF ok_any THEN "true" ELSE "false"
    /\ pc' = "main"
    /\ UNCHANGED << ast, key, template, out_dir, key_map, rows, colectari_text, todo,
                    groups, ok_any, exit_code >>
    /\ UNCHANGED other_than_gen

MainExit ==
    /\ pc = "main"
    /\ exit_code' = IF ret = "true" THEN 0 ELSE 1
    /\ pc' = "done"
    /\ UNCHANGED << ast, key, template, out_dir, key_map, rows, colectari_text, todo,
                    groups, ok_any, zip, zip_written, ret >>
    /\ UNCHANGED other_than_gen

Next ==
    \/ BuildKeyMap
    \/ JoinRows
    \/ EmptyReturn
    \/ SortAndPeriod
    \/ NextGroup
    \/ PackZip
    \/ MainExit

----------------------------------------------------------------------------
(* Specifications: the same program over different families of inputs *)

Tids == {1, 2}

TypicalTemplate == TemplateGeometry(2, start_col)

(* The total row lies at least one row (the model data row) below the header
   row; its label is in the first data column or right of the data columns. *)
Templates == {TemplateGeometry(off, tcol) : off \in 2 .. MaxTotalOff, tcol \in {start_col, 6}}

(* Reconciliation: two terminals, two clients, a terminal id listed twice,
   zero amounts, unparsable dates, equal timestamps. *)
Init ==
    InitWith(TxTables(Tids \X {0, 1000} \X {NaD, 11, 21}),
             KeyTables({<< 1, << "A" >> >>, << 1, << "B" >> >>, << 2, << "B" >> >>}),
             {TypicalTemplate}, FALSE)

Spec == Init /\ [][Next]_vars

(* Totals: negative amounts and amounts below one hundredth. *)
InitTotals ==
    InitWith(TxTables(Tids \X {0 - 1000, 4, 1000} \X {11}),
             KeyTables({<< 1, << "A" >> >>, << 2, << "B" >> >>}),
             {TypicalTemplate}, FALSE)

SpecTotals == InitTotals /\ [][Next]_vars

(* Rendering: one client, every position of the template's total row. *)
InitRender ==
    InitWith(TxTables({1} \X {4, 1000} \X {NaD, 11, 21}),
             KeyTables({<< 1, << "A" >> >>}),
             Templates, FALSE)

SpecRender == InitRender /\ [][Next]_vars

(* Archive: client names that differ only in punctuation, and an output
   directory that already holds a file. *)
InitArchive ==
    InitWith(TxTables(Tids \X {1000} \X {11}),
             KeyTables({<< 1, << "A", "B" >> >>, << 2, << "A", ".", "B" >> >>, << 2, << "C" >> >>}),
             {TypicalTemplate}, TRUE)

SpecArchive == InitArchive /\ [][Next]_vars

----------------------------------------------------------------------------
(* Vocabulary of the properties *)

(* Rounding of an amount in thousandths to 2 decimals (half to even). *)
Round2(m) ==
    LET q == m \div 10
        r == m % 10
    IN IF r < 5 THEN q * 10
       ELSE IF r > 5 THEN (q + 1) * 10
       ELSE IF q % 2 = 0 THEN q * 10 ELSE (q + 1) * 10

Finished == pc = "done"

LoopFinished == (pc = "groups" /\ todo = << >>) \/ (pc \in {"main", "done"} /\ rows # << >>)

Matched(i) == \E j \in DOMAIN key : key[j].tid = ast[i].tid

LastRef(i) ==
    CHOOSE j \in DOMAIN key :
        key[j].tid = ast[i].tid /\ \A l \in DOMAIN key : l > j => key[l].tid # ast[i].tid

(* The positions at which input row i occurs in group g. *)
Places(g, i) == {k \in DOMAIN groups[g].grp_list : groups[g].grp_list[k].produs = i}

Holders(i) == {g \in DOMAIN groups : Places(g, i) # {}}

(* The sheet rows of a workbook that hold input row i as a data row. *)
RowsOf(doc, i) ==
    {r \in SheetRows : r > HeaderRow /\ doc.cells[<< r, start_col + 2 >>] = DigitsCell(i)}

DataRows(doc) ==
    {r \in SheetRows : r > HeaderRow /\ doc.cells[<< r, start_col + 2 >>].t = "digits"}

Workbooks == {out_dir[f] : f \in DOMAIN out_dir} \cup {zip[f] : f \in DOMAIN zip}

InArchive(c) == \E f \in DOMAIN zip : zip[f].nume = c

RECURSIVE SumOver(_, _)
SumOver(f(_), S) ==
    IF S = {} THEN 0
    ELSE LET x == CHOOSE y \in S : TRUE IN f(x) + SumOver(f, S \ {x})

AmountOf(i) == ast[i].valoare

ClientTotal(c) ==
    SumOver(AmountOf, {i \in DOMAIN ast : Matched(i) /\ key[LastRef(i)].nume = c})

----------------------------------------------------------------------------
(* C1: a client group has a document in the output archive if and only if
   the sum of its amounts, rounded to 2 decimals, is strictly greater than 0;
   a negative total, or a positive total that rounds to 0.00, produces no
   document.  (The statement of the claim; the program renders every group
   whose total is not zero.) *)
C1_DocumentIffPositiveTotal ==
    Finished =>
        \A g \in DOMAIN groups :
            InArchive(groups[g].client) <=> Round2(groups[g].total) > 0

(* C2: when no client group qualifies (nothing matched, or every total is
   <= 0) the invocation ends in an error and no archive is produced as a
   successful result.  (The statement of the claim; with no matched row the
   program writes an empty archive and reports success.) *)
C2_ErrorWhenNothingQualifies ==
    (Finished /\ \A g \in DOMAIN groups : Round2(groups[g].total) <= 0) =>
        exit_code = 1

(* C3: every transaction row whose terminal id is listed in the reference
   table is placed once in exactly one client group, the group of the client
   named by the reference row matched for that terminal id (the last row that
   lists it), and no client has two groups. *)
C3_MatchedRowInOneGroup ==
    LoopFinished =>
        /\ \A i \in DOMAIN ast :
              Matched(i) =>
                  /\ Cardinality(Holders(i)) = 1
                  /\ \A g \in Holders(i) :
                        /\ Cardinality(Places(g, i)) = 1
                        /\ groups[g].client = key[LastRef(i)].nume
        /\ \A g, h \in DOMAIN groups : groups[g].client = groups[h].client => g = h

(* C3 witness: a terminal id listed twice under two client names, a
   transaction on it, and the loop over the groups completed. *)
C3_Witness ==
    /\ Finished
    /\ Len(key) = 2 /\ key[1].tid = key[2].tid /\ key[1].nume # key[2].nume
    /\ \E i \in DOMAIN ast : ast[i].tid = key[1].tid
    /\ Len(groups) = 1 /\ groups[1].rendered

(* C4: a transaction row whose terminal id matches no reference row is never
   a data row of any workbook, is in no group, and every group's total is
   the sum of the amounts of the matched rows of its client alone. *)
C4_UnmatchedRowNowhere ==
    /\ \A i \in DOMAIN ast :
          ~Matched(i) =>
              /\ \A doc \in Workbooks : RowsOf(doc, i) = {}
              /\ Holders(i) = {}
              /\ \A k \in DOMAIN rows : rows[k].produs # i
    /\ \A g \in DOMAIN groups : groups[g].total = ClientTotal(groups[g].client)

(* C4 witness: an archive with a rendered workbook, produced from a table
   that also holds a transaction on an unlisted terminal. *)
C4_Witness ==
    /\ Finished
    /\ \E i \in DOMAIN ast : ~Matched(i) /\ ast[i].valoare # 0
    /\ \E f \in DOMAIN zip : DataRows(zip[f]) # {}

----------------------------------------------------------------------------
(* More vocabulary: what a workbook shows *)

(* The workbooks rendered by this invocation (a leftover file has no data row). *)
Rendered == {doc \in Workbooks : DataRows(doc) # {}}

LabelOf(doc, r) == doc.cells[<< r, start_col + 2 >>].n

(* The timestamp a data row shows: an empty date cell shows none. *)
StampOf(doc, r) ==
    LET c == doc.cells[<< r, start_col + 4 >>]
    IN IF c.t = "ts" THEN c.n ELSE datetime_min

DateCellOf(i) == IF ast[i].data = NaD THEN StrCell(<< >>) ELSE TsCell(ast[i].data)

(* C5: in every workbook the data rows are in non-decreasing timestamp order,
   each row showing the timestamp of its transaction, and two rows with equal
   timestamps are in the order of the input table. *)
C5_RowsInTimestampOrder ==
    \A doc \in Rendered :
        /\ \A r \in DataRows(doc) :
              /\ LabelOf(doc, r) \in DOMAIN ast
              /\ doc.cells[<< r, start_col + 4 >>] = DateCellOf(LabelOf(doc, r))
        /\ \A r1, r2 \in DataRows(doc) :
              r1 < r2 =>
                  /\ StampOf(doc, r1) <= StampOf(doc, r2)
                  /\ StampOf(doc, r1) = StampOf(doc, r2) => LabelOf(doc, r1) < LabelOf(doc, r2)

(* C5 witness: an archived workbook with two data rows, where either the two
   transactions carry the same timestamp or the later one came first in the
   input table. *)
C5_Witness ==
    /\ Finished
    /\ Len(ast) = 2 /\ ast[1].data # NaD /\ ast[2].data # NaD
    /\ ast[2].data <= ast[1].data
    /\ \E f \in DOMAIN zip : Cardinality(DataRows(zip[f])) = 2

----------------------------------------------------------------------------
(* C6: in every workbook the total cell holds the sum of the workbook's
   amount cells, to 2 decimals, wherever the template's total row lies.
   (The statement of the claim; the program writes data rows over the total
   row and then either finds no "Total" label or overwrites an amount.) *)
C6_TotalCellIsSumOfAmounts ==
    \A doc \in Rendered :
        LET pos == find_cell(doc.cells, "Total")
            Amount(r) == doc.cells[<< r, start_col + 3 >>].n
        IN /\ pos # None
           /\ doc.cells[<< pos[1], start_col + 3 >>].t = "num"
           /\ Round2(doc.cells[<< pos[1], start_col + 3 >>].n)
                 = Round2(SumOver(Amount, DataRows(doc)))

(* C10: a group of n >= 1 transactions rendered into a template whose total
   row is at T has its total at row T + (n - 1), all n data rows above it,
   and the template content below the data region intact.  (The statement of
   the claim; the program inserts no row, so the total row stays at T and
   data rows are written over it and over what follows.) *)
C10_TotalRowFollowsData ==
    \A g \in DOMAIN groups :
        (groups[g].rendered /\ g = Len(groups)) =>
            LET doc == out_dir[out_xlsx(groups[g].client)]
                n == Len(groups[g].grp_list)
                last == template.trow + (n - 1)
            IN /\ doc.cells[<< last, template.tcol >>] = TextCell("Total")
               /\ doc.cells[<< last, start_col + 3 >>] = NumCell(groups[g].total)
               /\ Cardinality(DataRows(doc)) = n
               /\ \A r \in DataRows(doc) : r < last
               /\ find_cell(doc.cells, "Semnatura") # None

----------------------------------------------------------------------------
(* C7 as stated: a transaction whose date does not parse is dropped: it is a
   data row of no workbook and no group's total counts it.  (The program
   keeps it, with datetime.min as its timestamp.) *)
C7_UnparsableDateDropped ==
    /\ \A i \in DOMAIN ast :
          ast[i].data = NaD => \A doc \in Workbooks : RowsOf(doc, i) = {}
    /\ \A g \in DOMAIN groups :
          groups[g].total =
              SumOver(AmountOf, {i \in DOMAIN ast :
                  /\ Matched(i)
                  /\ key[LastRef(i)].nume = groups[g].client
                  /\ ast[i].data # NaD})

LastGroup == groups[Len(groups)]

(* C7 as amended: a matched transaction whose date does not parse is kept.
   It is joined with the sentinel timestamp and its amount, it is in its
   client's group and counted in the group's total, and when the group is
   rendered it is written as one data row with an empty date cell above
   every dated row; the invocation then exits with status 0. *)
C7_UnparsableDateKept ==
    \A i \in DOMAIN ast :
        (ast[i].data = NaD /\ Matched(i)) =>
            /\ pc \notin {"key_map", "join"} =>
                  Cardinality({k \in DOMAIN rows :
                      /\ rows[k].produs = i
                      /\ rows[k].data = datetime_min
                      /\ rows[k].valoare = ast[i].valoare}) = 1
            /\ LoopFinished =>
                  /\ Cardinality(Holders(i)) = 1
                  /\ \A g \in Holders(i) : groups[g].total = ClientTotal(groups[g].client)
            /\ (groups # << >> /\ LastGroup.rendered /\ Places(Len(groups), i) # {}) =>
                  LET doc == out_dir[out_xlsx(LastGroup.client)]
                  IN /\ Cardinality(RowsOf(doc, i)) = 1
                     /\ \A r \in RowsOf(doc, i) :
                           /\ doc.cells[<< r, start_col + 4 >>] = StrCell(<< >>)
                           /\ \A r2 \in DataRows(doc) :
                                 doc.cells[<< r2, start_col + 4 >>].t = "ts" => r < r2
            /\ (Finished /\ \E g \in Holders(i) : groups[g].rendered) => exit_code = 0

(* C7 witness: an archived workbook with two data rows, the first with an
   empty date cell for a transaction whose date did not parse. *)
C7_Witness ==
    /\ Finished
    /\ exit_code = 0
    /\ \E i \in DOMAIN ast, f \in DOMAIN zip :
          /\ ast[i].data = NaD
          /\ RowsOf(zip[f], i) # {}
          /\ Cardinality(DataRows(zip[f])) = 2
          /\ \E r \in DataRows(zip[f]) : zip[f].cells[<< r, start_col + 4 >>].t = "ts"

----------------------------------------------------------------------------
MatchedStamps == {parse_datetime(ast[i].data) : i \in {j \in DOMAIN ast : Matched(j)}}

MatchedDates == {ast[i].data : i \in {j \in DOMAIN ast : Matched(j) /\ ast[j].data # NaD}}

(* C9 as stated: every workbook carries the period 'min - max' over the
   timestamps of all matched transactions, as day.month.year.  (The program
   leaves the transactions without a parsable date out of the period.) *)
C9_PeriodOverAllMatched ==
    \A doc \in Rendered :
        /\ Len(doc.colectari) = 2
        /\ \E lo, hi \in MatchedStamps :
              /\ \A d \in MatchedStamps : lo <= d /\ d <= hi
              /\ doc.colectari = << lo \div 10, hi \div 10 >>

(* C9 as amended: every workbook of one invocation carries the same period,
   'min - max' as day.month.year over the timestamps of all matched
   transactions that have a parsable date, across all clients and whether or
   not their group is rendered; it is the empty string when no matched
   transaction has a parsable date. *)
C9_PeriodOverDatedMatched ==
    \A doc \in Rendered :
        IF MatchedDates = {} THEN doc.colectari = << >>
        ELSE \E lo, hi \in MatchedDates :
                /\ \A d \in MatchedDates : lo <= d /\ d <= hi
                /\ doc.colectari = << lo \div 10, hi \div 10 >>

(* C9 witness: an archive with the workbooks of two clients, each holding one
   transaction, on different days; both carry the period of the two days. *)
C9_Witness ==
    /\ Finished
    /\ \E f1, f2 \in DOMAIN zip :
          /\ zip[f1].nume # zip[f2].nume
          /\ DataRows(zip[f1]) # {} /\ DataRows(zip[f2]) # {}
          /\ zip[f1].colectari = << 1, 2 >>
          /\ zip[f2].colectari = << 1, 2 >>

----------------------------------------------------------------------------
(* C8: the archive holds exactly one workbook per rendered client: two
   rendered clients never share a file name, every rendered client has its
   workbook in the archive, and every entry was rendered for a client in this
   invocation.  (The statement of the claim; the file name drops punctuation,
   and the archive takes every file found in the output directory.) *)
C8_OneWorkbookPerClient ==
    /\ \A g, h \in DOMAIN groups :
          (groups[g].rendered /\ groups[h].rendered /\ g # h) =>
              out_xlsx(groups[g].client) # out_xlsx(groups[h].client)
    /\ \A g \in DOMAIN groups :
          groups[g].rendered =>
              \E f \in DOMAIN out_dir : out_dir[f].nume = groups[g].client
    /\ Finished =>
          /\ \A g \in DOMAIN groups : groups[g].rendered => InArchive(groups[g].client)
          /\ \A f \in DOMAIN zip :
                \E g \in DOMAIN groups :
                    /\ groups[g].rendered
                    /\ f = out_xlsx(groups[g].client)
                    /\ zip[f].nume = groups[g].client

----------------------------------------------------------------------------
(* find_col: resolving a column of a table from a list of candidate names.
   A name is a sequence of one-character strings; "a~" stands for the single
   character a-breve. *)

MaxCols == 2

MaxCands == 2

lower_char(ch) ==
    CASE ch = "A" -> "a"
      [] ch = "B" -> "b"
      [] ch = "A~" -> "a~"
      [] OTHER -> ch

lower(s) == [i \in DOMAIN s |-> lower_char(s[i])]

(* The chain of single-character replace() calls: no replacement produces a
   character that a later one rewrites, so the chain is a map over characters. *)
replace_char(ch) ==
    IF ch = "a~" THEN "a"
    ELSE IF ch \in {".", "_", "-"} THEN " "
    ELSE ch

(* str.replace("  ", " "): one pass from the left over non-overlapping
   occurrences, so a run of three spaces is left as two. *)
RECURSIVE replace_double_space(_)
replace_double_space(s) ==
    IF Len(s) < 2 THEN s
    ELSE IF s[1] = " " /\ s[2] = " "
         THEN << " " >> \o replace_double_space(SubSeq(s, 3, Len(s)))
         ELSE << s[1] >> \o replace_double_space(Tail(s))

_norm(s) ==
    LET low == lower(s)
    IN strip(replace_double_space([i \in DOMAIN low |-> replace_char(low[i])]))

(* d[k] = v on a dict kept as a sequence of << key, value >>: a key keeps the
   position of its first insertion and takes the last value stored. *)
dict_set(d, k, v) ==
    IF \E i \in DOMAIN d : d[i][1] = k
    THEN [i \in DOMAIN d |-> IF d[i][1] = k THEN << k, v >> ELSE d[i]]
    ELSE Append(d, << k, v >>)

RECURSIVE build_norms(_)
build_norms(cols) ==
    IF cols = << >> THEN << >>
    ELSE dict_set(build_norms(SubSeq(cols, 1, Len(cols) - 1)),
                  _norm(cols[Len(cols)]), cols[Len(cols)])

(* Python's  sub in s  on strings. *)
is_substring(sub, s) ==
    \E o \in 0 .. (Len(s) - Len(sub)) : SubSeq(s, o + 1, o + Len(sub)) = sub

(* A plausible slip: the containment test written the other way round. *)
fallback_hit_reversed(nc, k) == is_substring(k, nc)

fallback_hit(nc, k) == is_substring(nc, k)

find_col_norms ==
    /\ fc_pc = "norms"
    /\ norms' = build_norms(columns)
    /\ fc_pc' = "exact"
    /\ fc_i' = 1
    /\ UNCHANGED << columns, candidates, fc_result >>
    /\ UNCHANGED other_than_find_col

(* One iteration of the first loop; after the last candidate the second loop
   starts. *)
find_col_exact ==
    /\ fc_pc = "exact"
    /\ LET nc == _norm(candidates[fc_i])
           hits == {n \in DOMAIN norms : norms[n][1] = nc}
       IN IF hits # {}
          THEN /\ fc_result' = norms[CHOOSE n \in hits : TRUE][2]
               /\ fc_pc' = "returned"
               /\ fc_i' = fc_i
          ELSE /\ fc_result' = fc_result
               /\ fc_pc' = IF fc_i < Len(candidates) THEN "exact" ELSE "fallback"
               /\ fc_i' = IF fc_i < Len(candidates) THEN fc_i + 1 ELSE 1
    /\ UNCHANGED << columns, candidates, norms >>
    /\ UNCHANGED other_than_find_col

(* One iteration of the outer fallback loop, its inner loop over the items of
   norms included; after the last candidate the function raises KeyError. *)
find_col_fallback ==
    /\ fc_pc = "fallback"
    /\ LET nc == _norm(candidates[fc_i])
           hits == {n \in DOMAIN norms : fallback_hit(nc, norms[n][1])}
       IN IF hits # {}
          THEN /\ fc_result' = norms[CHOOSE n \in hits : \A m \in hits : n <= m][2]
               /\ fc_pc' = "returned"
               /\ fc_i' = fc_i
          ELSE /\ fc_result' = fc_result
               /\ fc_pc' = IF fc_i < Len(candidates) THEN "fallback" ELSE "raised"
               /\ fc_i' = IF fc_i < Len(candidates) THEN fc_i + 1 ELSE fc_i
    /\ UNCHANGED << columns, candidates, norms >>
    /\ UNCHANGED other_than_find_col

NextFindCol ==
    \/ find_col_norms
    \/ find_col_exact
    \/ find_col_fallback

(* The generator, not running. *)
GenIdle ==
    /\ ast = << >>
    /\ key = << >>
    /\ template = TypicalTemplate
    /\ out_dir = NoFiles
    /\ pc = "idle"
    /\ key_map = NoFiles
    /\ rows = << >>
    /\ colectari_text = << >>
    /\ todo = << >>
    /\ groups = << >>
    /\ ok_any = FALSE
    /\ zip = NoFiles
    /\ zip_written = FALSE
    /\ ret = "none"
    /\ exit_code = 0 - 1

(* Headers as read_table leaves them: stripped, and distinct within a table.
   Two of them normalize alike. *)
Headers ==
    { << "a" >>, << "a", "b" >>, << "A", ".", "b" >>, << "a", "_", "b" >>,
      << "b", "a~" >> }

Candidates ==
    { << "A", "B" >>, << "a", " ", "b" >>, << "b" >>, << "a", "b", "a" >>,
      << "a", "-", "-", "b" >> }

InitFindCol ==
    /\ GenIdle
    /\ HttpIdle
    /\ columns \in {c \in SeqsUpTo(Headers, MaxCols) :
                       \A i, j \in DOMAIN c : i # j => c[i] # c[j]}
    /\ candidates \in SeqsUpTo(Candidates, MaxCands) \ {<< >>}
    /\ norms = << >>
    /\ fc_pc = "norms"
    /\ fc_i = 0
    /\ fc_result = << >>

SpecFindCol == InitFindCol /\ [][NextFindCol]_vars

(* Vocabulary of the statements about find_col *)

FcDone == fc_pc \in {"returned", "raised"}

NoExactMatch ==
    \A i \in DOMAIN candidates, j \in DOMAIN columns :
        _norm(candidates[i]) # _norm(columns[j])

Contained(a, b) ==
    \E pre \in 0 .. Len(b) : \E post \in 0 .. (Len(b) - pre) :
        b = SubSeq(b, 1, pre) \o a \o SubSeq(b, Len(b) - post + 1, Len(b))

CandInHeader(i, j) == Contained(_norm(candidates[i]), _norm(columns[j]))

HeaderInCand(i, j) == Contained(_norm(columns[j]), _norm(candidates[i]))

Alike(j) == {m \in DOMAIN columns : _norm(columns[m]) = _norm(columns[j])}

FirstAlike(j) == CHOOSE m \in Alike(j) : \A n \in Alike(j) : m <= n

LastAlike(j) == CHOOSE m \in Alike(j) : \A n \in Alike(j) : m >= n

Pairs == (DOMAIN candidates) \X (DOMAIN columns)

(* The pair p is met no later than the pair q: candidates in order, then the
   normalized headers in order of first appearance. *)
NoLater(p, q) ==
    \/ p[1] < q[1]
    \/ p[1] = q[1] /\ FirstAlike(p[2]) <= FirstAlike(q[2])

(* C11, as stated: with no exact match, find_col fails exactly when no
   candidate and header are substring-compatible in either direction, and
   otherwise returns the header of the first pair compatible in either
   direction (a header being identified by its normalized form). *)
C11_FallbackEitherDirection ==
    LET Compat(p) == CandInHeader(p[1], p[2]) \/ HeaderInCand(p[1], p[2])
    IN (FcDone /\ NoExactMatch) =>
          /\ fc_pc = "raised" <=> \A p \in Pairs : ~Compat(p)
          /\ fc_pc = "returned" =>
                \E p \in Pairs :
                    /\ Compat(p)
                    /\ \A q \in Pairs : Compat(q) => NoLater(p, q)
                    /\ _norm(fc_result) = _norm(columns[p[2]])

(* C11, amended: with no exact match, find_col fails exactly when no
   normalized candidate is contained in a normalized header, whether or not
   a header is contained in a candidate; otherwise it returns the header
   recorded for the first pair with the candidate contained in the header,
   candidates in order and then headers in order, which of the headers that
   normalize alike is the last. *)
C11_FallbackCandidateInHeader ==
    (FcDone /\ NoExactMatch) =>
        /\ fc_pc = "raised" <=> \A p \in Pairs : ~CandInHeader(p[1], p[2])
        /\ fc_pc = "returned" =>
              \E p \in Pairs :
                  /\ CandInHeader(p[1], p[2])
                  /\ \A q \in Pairs : CandInHeader(q[1], q[2]) => NoLater(p, q)
                  /\ fc_result = columns[LastAlike(p[2])]

(* The fallback returns the second header for the second candidate, after a
   first candidate that contains a header and is contained in none. *)
C11_Witness ==
    /\ fc_pc = "returned"
    /\ NoExactMatch
    /\ Len(candidates) = 2
    /\ Len(columns) = 2
    /\ fc_i = 2
    /\ fc_result = columns[2]
    /\ \E j \in DOMAIN columns : HeaderInCand(1, j)
    /\ \A j \in DOMAIN columns : ~CandInHeader(1, j)

----------------------------------------------------------------------------
(* app.py: one request to POST /generate or POST /generate_b64, from the
   entry into the handler to the server sending the body of the response the
   handler returned.
   A file is [dir, name]; dir is "tmpdir" for the directory made by mkdtemp,
   "tmpdir/sub" for a directory below it and "elsewhere" for one outside it. *)

Path(d, n) == [dir |-> d, name |-> n]

(* tmpdir / name for the astob_name of the payload: a plain file name, a
   relative name with a directory part, or an absolute name. *)
astob_dir(kind) ==
    CASE kind = "plain" -> "tmpdir"
      [] kind = "nested" -> "tmpdir/sub"
      [] kind = "absolute" -> "elsewhere"

out_zip == Path(work_dir, "ordine.zip")

(* generate_b64: the check of the required keys, before any directory is made *)
check_payload ==
    /\ h_pc = "check_payload"
    /\ IF payload.has_keys
       THEN /\ h_pc' = "mkdtemp"
            /\ resp' = resp
       ELSE /\ h_pc' = "returned"
            /\ resp' = "json400"
    /\ UNCHANGED << endpoint, payload, static_files, tmpdir_exists, fs, work_dir,
                    template_path, clients_zip_path, returncode, body >>
    /\ UNCHANGED other_than_http

mkdtemp ==
    /\ h_pc = "mkdtemp"
    /\ tmpdir_exists' = TRUE
    /\ h_pc' = "write_inputs"
    /\ UNCHANGED << endpoint, payload, static_files, fs, work_dir, template_path,
                    clients_zip_path, returncode, resp, body >>
    /\ UNCHANGED other_than_http

(* The body of try up to the call of run_generator: the uploads are written
   and the two optional paths are settled. *)
write_inputs ==
    /\ h_pc = "write_inputs"
    /\ fs' = fs \cup {Path(astob_dir(payload.astob_name), "astob"), Path("tmpdir", "key")}
                \cup (IF payload.template THEN {Path("tmpdir", "template.xlsx")} ELSE {})
                \cup (IF payload.clients_zip THEN {Path("tmpdir", "clients.zip")} ELSE {})
    /\ work_dir' = astob_dir(payload.astob_name)
    /\ template_path' = IF payload.template THEN "uploaded" ELSE "none"
    /\ clients_zip_path' =
          IF payload.clients_zip THEN "uploaded"
          ELSE IF static_files.clients_zip THEN "packaged"
          ELSE "none"
    /\ h_pc' = "run_generator"
    /\ UNCHANGED << endpoint, payload, static_files, tmpdir_exists, returncode, resp, body >>
    /\ UNCHANGED other_than_http

(* run_generator, up to the command line: the template falls back to the
   packaged one, and its absence ends the call with a 400. *)
resolve_template ==
    /\ h_pc = "run_generator"
    /\ IF template_path # "none"
       THEN /\ h_pc' = "subprocess"
            /\ UNCHANGED << template_path, resp >>
       ELSE IF static_files.template
       THEN /\ h_pc' = "subprocess"
            /\ template_path' = "static"
            /\ resp' = resp
       ELSE /\ h_pc' = "finally"
            /\ template_path' = template_path
            /\ resp' = "json400"
    /\ UNCHANGED << endpoint, payload, static_files, tmpdir_exists, fs, work_dir,
                    clients_zip_path, returncode, body >>
    /\ UNCHANGED other_than_http

(* What one run of generate_orders.py can end as.  Its argument parser knows
   no --clients-zip and exits with status 2 when given one.  Otherwise the
   archive is written before status 0 is returned; status 1 comes with the
   archive (no client rendered) or without it (nothing matched, or an
   exception). *)
generator_outcomes(with_clients_zip) ==
    IF with_clients_zip
    THEN {[returncode |-> 2, zip |-> FALSE]}
    ELSE {[returncode |-> 0, zip |-> TRUE],
          [returncode |-> 1, zip |-> TRUE],
          [returncode |-> 1, zip |-> FALSE]}

subprocess_run ==
    /\ h_pc = "subprocess"
    /\ \E o \in generator_outcomes(clients_zip_path # "none") :
          /\ returncode' = o.returncode
          /\ fs' = IF o.zip THEN fs \cup {out_zip} ELSE fs
    /\ h_pc' = "respond"
    /\ UNCHANGED << endpoint, payload, static_files, tmpdir_exists, work_dir,
                    template_path, clients_zip_path, resp, body >>
    /\ UNCHANGED other_than_http

(* run_generator, after the process: the two 500 answers, or a
   StreamingResponse over iterfile(out_zip), which opens nothing yet. *)
build_response ==
    /\ h_pc = "respond"
    /\ resp' = IF returncode # 0 THEN "json500"
               ELSE IF out_zip \notin fs THEN "json500"
               ELSE "stream"
    /\ h_pc' = "finally"
    /\ UNCHANGED << endpoint, payload, static_files, tmpdir_exists, fs, work_dir,
                    template_path, clients_zip_path, returncode, body >>
    /\ UNCHANGED other_than_http

(* finally: shutil.rmtree(tmpdir, ignore_errors=True), and the handler
   returns resp. *)
rmtree(files) == {f \in files : f.dir \notin {"tmpdir", "tmpdir/sub"}}

finally_rmtree ==
    /\ h_pc = "finally"
    /\ fs' = rmtree(fs)
    /\ tmpdir_exists' = FALSE
    /\ h_pc' = "returned"
    /\ UNCHANGED << endpoint, payload, static_files, work_dir, template_path,
                    clients_zip_path, returncode, resp, body >>
    /\ UNCHANGED other_than_http

(* The server sends the response it was handed.  A JSON body was rendered
   when the response was built; the body of a StreamingResponse is read now,
   by running iterfile, whose first step opens the file. *)
iterfile(path) == IF path \in fs THEN "sent" ELSE "error"

send_body ==
    /\ h_pc = "returned"
    /\ body' = IF resp = "stream" THEN iterfile(out_zip) ELSE "sent"
    /\ h_pc' = "done"
    /\ UNCHANGED << endpoint, payload, static_files, tmpdir_exists, fs, work_dir,
                    template_path, clients_zip_path, returncode, resp >>
    /\ UNCHANGED other_than_http

NextHttp ==
    \/ check_payload
    \/ mkdtemp
    \/ write_inputs
    \/ resolve_template
    \/ subprocess_run
    \/ build_response
    \/ finally_rmtree
    \/ send_body

(* /generate receives its two required files from the framework and names
   them itself; /generate_b64 takes names and contents from the payload. *)
Payloads(route) ==
    [has_keys : IF route = "generate" THEN {TRUE} ELSE BOOLEAN,
     astob_name : IF route = "generate" THEN {"plain"} ELSE {"plain", "nested", "absolute"},
     template : BOOLEAN,
     clients_zip : BOOLEAN]

InitHttp ==
    /\ GenIdle
    /\ FindColIdle
    /\ endpoint \in {"generate", "generate_b64"}
    /\ payload \in Payloads(endpoint)
    /\ static_files \in [template : BOOLEAN, clients_zip : BOOLEAN]
    /\ h_pc = IF endpoint = "generate" THEN "mkdtemp" ELSE "check_payload"
    /\ tmpdir_exists = FALSE
    /\ fs = {}
    /\ work_dir = "none"
    /\ template_path = "none"
    /\ clients_zip_path = "none"
    /\ returncode = 0 - 1
    /\ resp = "none"
    /\ body = "none"

SpecHttp == InitHttp /\ [][NextHttp]_vars

(* C12: whenever a handler has returned a streaming archive response and the
   server reads its body, the archive file is, at that moment, present in the
   temporary directory of the request, which still exists. *)
C12_ArchivePresentWhenBodyRead ==
    (resp = "stream" /\ body # "none") =>
        /\ tmpdir_exists
        /\ work_dir \in {"tmpdir", "tmpdir/sub"}
        /\ out_zip \in fs

====
